---- MODULE Spec2Model ----
(***************************************************************************)
(* Model of the rpc-tester crate: the paginating log fetcher               *)
(* (get_logs.rs) and the result reconciler (report.rs).                    *)
(*                                                                         *)
(* The fetcher is an async recursion; it is modelled as a stack machine    *)
(* whose steps are the code between two awaits.  The provider is the       *)
(* environment: each get_logs call is answered nondeterministically.       *)
(***************************************************************************)
EXTENDS Integers, Sequences, FiniteSets, TLC

VARIABLES
    filter0,    \* the filter handed to get_logs_with_retry
    provider,   \* what the provider's Ok answers carry: "honest" or "lossy"
    pc,         \* "idle" | "running" | "done" | "panicked"
    stack,      \* suspended/active invocations of get_logs_paginated, root first
    ret,        \* <<>> or <<r>>: the invocation that has just returned, not yet consumed
    result,     \* <<>> or <<res>>: what get_logs_with_retry returned
    rstate,     \* the reconciler's state (report.rs)
    call        \* the last call of a pure function: its arguments and its value

vars == <<filter0, provider, pc, stack, ret, result, rstate, call>>

(***************************************************************************)
(* Bounds and program constants                                            *)
(***************************************************************************)
\* Largest value of the block-number type (BlockNumber = u64, scaled down).
MaxBlock == 11

\* get_logs.rs:13
MAX_RECURSION_DEPTH == 10

None == <<>>
Some(x) == <<x>>

Min(a, b) == IF a <= b THEN a ELSE b

(***************************************************************************)
(* Integer arithmetic of the block-number type                             *)
(***************************************************************************)
checked_sub(a, b) == IF a >= b THEN Some(a - b) ELSE None

checked_add(a, b) == IF a + b <= MaxBlock THEN Some(a + b) ELSE None

saturating_add(a, b) == IF a + b <= MaxBlock THEN a + b ELSE MaxBlock

\* a + b with the plain operator: a build with overflow checks panics, one
\* without wraps modulo 2^w.  The set of outcomes the build can produce.
plain_add(a, b) ==
    IF a + b <= MaxBlock
    THEN {[panic |-> FALSE, v |-> a + b]}
    ELSE {[panic |-> TRUE, v |-> 0],
          [panic |-> FALSE, v |-> (a + b) % (MaxBlock + 1)]}

(***************************************************************************)
(* Filters (alloy Filter: only the block option is inspected)              *)
(***************************************************************************)
Number(n) == [tag |-> "Number", n |-> n]
Latest == [tag |-> "Latest", n |-> 0]

Filter(f, t) == [from |-> f, to |-> t]

\* filter.clone().from_block(a).to_block(b)
chunk_filter(filter, a, b) == [filter EXCEPT !.from = Some(Number(a)), !.to = Some(Number(b))]

AsNumber(opt) ==
    IF opt # None /\ opt[1].tag = "Number" THEN Some(opt[1].n) ELSE None

extract_block_range(filter) ==
    LET from == AsNumber(filter.from)
        to == AsNumber(filter.to)
    IN  IF from = None THEN None
        ELSE IF to = None THEN None
        ELSE Some(<<from[1], to[1]>>)

(***************************************************************************)
(* Error messages.  A message is a sequence of characters; an error value  *)
(* carries what the provider put into it and is rendered by to_string.     *)
(***************************************************************************)
Digits == <<"0", "1", "2", "3", "4", "5", "6", "7", "8", "9">>

is_ascii_digit(c) == \E i \in 1..10 : Digits[i] = c

DigitValue(c) == (CHOOSE i \in 1..10 : Digits[i] = c) - 1

RECURSIVE ToDecimal(_)
ToDecimal(n) ==
    IF n < 10 THEN <<Digits[n + 1]>>
    ELSE ToDecimal(n \div 10) \o <<Digits[(n % 10) + 1]>>

MsgOther == <<"t", "i", "m", "e", "o", "u", "t">>
MsgMaxResults == <<"m", "a", "x", " ", "r", "e", "s", "u", "l", "t", "s">>
MsgRetry == <<",", " ", "r", "e", "t", "r", "y", " ">>
MsgRangePrefix == <<"r", "a", "n", "g", "e", " ">>

\* Display of the provider's error: the message text the fetcher sniffs.
\*   "other"    -> timeout
\*   "nomarker" -> max results, retry
\*   "badsep"   -> max results, retry range A:B
\*   "hint"     -> max results, retry range A-B
to_string(error) ==
    IF error.kind = "other" THEN MsgOther
    ELSE IF error.kind = "nomarker" THEN MsgMaxResults \o MsgRetry
    ELSE MsgMaxResults \o MsgRetry \o MsgRangePrefix
            \o ToDecimal(error.a)
            \o (IF error.kind = "badsep" THEN <<":">> ELSE <<"-">>)
            \o ToDecimal(error.b)

\* str::contains
contains(msg, pat) ==
    \E i \in 1..(Len(msg) - Len(pat) + 1) : SubSeq(msg, i, i + Len(pat) - 1) = pat

\* str::find: index (1-based) of the first occurrence
find(msg, pat) ==
    IF contains(msg, pat)
    THEN Some(CHOOSE i \in 1..(Len(msg) - Len(pat) + 1) :
                /\ SubSeq(msg, i, i + Len(pat) - 1) = pat
                /\ \A j \in 1..(i - 1) : SubSeq(msg, j, j + Len(pat) - 1) # pat)
    ELSE None

\* str::split('-'): the pieces between dashes, at least one (possibly empty)
RECURSIVE split_dash(_)
split_dash(s) ==
    IF \A i \in 1..Len(s) : s[i] # "-" THEN <<s>>
    ELSE LET k == CHOOSE i \in 1..Len(s) :
                    s[i] = "-" /\ \A j \in 1..(i - 1) : s[j] # "-"
         IN  <<SubSeq(s, 1, k - 1)>> \o split_dash(SubSeq(s, k + 1, Len(s)))

\* str::parse::<u64>() on a string of digits: fails on the empty string and
\* on a value beyond the type's maximum.
RECURSIVE parse_digits(_, _)
parse_digits(s, acc) ==
    IF acc = None THEN None
    ELSE IF s = <<>> THEN acc
    ELSE LET v == acc[1] * 10 + DigitValue(s[1])
         IN  parse_digits(Tail(s), IF v <= MaxBlock THEN Some(v) ELSE None)

parse_u64(s) ==
    IF s = <<>> \/ \E i \in 1..Len(s) : ~is_ascii_digit(s[i]) THEN None
    ELSE parse_digits(s, Some(0))

\* get_logs.rs:106-124: the parse of the message text
parse_message(msg) ==
    IF ~contains(msg, MsgMaxResults) THEN None
    ELSE LET range_start == find(msg, MsgRangePrefix) IN
    IF range_start = None THEN None
    ELSE LET range_part == SubSeq(msg, range_start[1] + Len(MsgRangePrefix), Len(msg))
             stops == {i \in 1..Len(range_part) :
                          ~is_ascii_digit(range_part[i]) /\ range_part[i] # "-"}
             range_end == IF stops = {} THEN Len(range_part) + 1
                          ELSE CHOOSE i \in stops : \A j \in stops : i <= j
             range_str == SubSeq(range_part, 1, range_end - 1)
             parts == split_dash(range_str)
             from == parse_u64(parts[1])
         IN  IF from = None THEN None
             ELSE IF Len(parts) < 2 THEN None
             ELSE LET to == parse_u64(parts[2]) IN
                  IF to = None THEN None
                  ELSE Some(<<from[1], to[1]>>)

\* get_logs.rs:103-125
parse_max_results_error(error) == parse_message(to_string(error))

(***************************************************************************)
(* Results and logs                                                        *)
(***************************************************************************)
Ok(logs) == [ok |-> TRUE, logs |-> logs, err |-> None]
Err(e) == [ok |-> FALSE, logs |-> <<>>, err |-> Some(e)]

\* The chain: block b holds one or two logs, identified by block and index.
LogsOfBlock(b) ==
    IF b % 2 = 0 THEN <<[block |-> b, index |-> 1]>>
    ELSE <<[block |-> b, index |-> 1], [block |-> b, index |-> 2]>>

RECURSIVE LogsOfRange(_, _)
LogsOfRange(a, b) ==
    IF a > b THEN <<>> ELSE LogsOfRange(a, b - 1) \o LogsOfBlock(b)

(***************************************************************************)
(* The provider (environment of the fetcher)                               *)
(***************************************************************************)
\* What an Ok answer carries.  An honest provider returns the logs of every
\* block of the queried range in ascending order (of the head block for a
\* symbolic range); a lossy one returns the logs of the last block only.
ProviderLogs(filter) ==
    LET r == extract_block_range(filter) IN
    IF r = None THEN LogsOfBlock(MaxBlock)
    ELSE IF provider = "honest" THEN LogsOfRange(r[1][1], r[1][2])
    ELSE IF r[1][1] <= r[1][2] THEN LogsOfBlock(r[1][2])
    ELSE <<>>

\* The ranges a max-results rejection of this query may suggest: chunks of
\* 1, 2, one less than, exactly, and one more than the queried length,
\* an inverted range, and the range covering the whole number type.
Suggestions(filter) ==
    LET r == extract_block_range(filter) IN
    IF r # None /\ r[1][1] <= r[1][2]
    THEN LET from == r[1][1]
             len == r[1][2] - r[1][1] + 1
         IN  {<<from, from + c - 1>> :
                 c \in {c \in {1, 2, len - 1, len, len + 1} :
                           c >= 1 /\ from + c - 1 <= MaxBlock}}
             \cup {<<1, 0>>, <<0, MaxBlock>>}
    ELSE {<<0, 0>>, <<1, 2>>, <<1, 0>>, <<0, MaxBlock>>}

\* The errors the provider may answer this query with.  An error value is
\* tied to the query it answers (filter, depth), so that errors of different
\* calls are different values.
ProviderErrors(filter, depth) ==
    {[kind |-> k, a |-> 0, b |-> 1, filter |-> filter, depth |-> depth] :
        k \in {"other", "nomarker", "badsep"}}
    \cup {[kind |-> "hint", a |-> s[1], b |-> s[2], filter |-> filter, depth |-> depth] :
            s \in Suggestions(filter)}

(***************************************************************************)
(* get_logs_paginated (get_logs.rs:31-85)                                  *)
(***************************************************************************)
BeyondCapOff(depth) == FALSE

\* line 37
BeyondCap(depth) == depth > MAX_RECURSION_DEPTH

ChunkSizeSaturating(suggested_from, suggested_to) ==
    Some(Min((IF suggested_to >= suggested_from
              THEN suggested_to - suggested_from ELSE 0) + 1, MaxBlock))

\* lines 48-49: suggested_to.checked_sub(suggested_from).and_then(|d| d.checked_add(1))
ChunkSize(suggested_from, suggested_to) ==
    LET d == checked_sub(suggested_to, suggested_from) IN
    IF d = None THEN None ELSE checked_add(d[1], 1)

NoProgressStrict(chunk_size, original_len, depth) ==
    chunk_size > original_len /\ depth > 0

\* line 62
NoProgress(chunk_size, original_len, depth) == chunk_size >= original_len /\ depth > 0

WindowToInclusive(current_from, chunk_size, original_to) ==
    Min(saturating_add(current_from, chunk_size), original_to)

WindowToUnclipped(current_from, chunk_size, original_to) ==
    saturating_add(current_from, chunk_size - 1)

\* line 70: current_from.saturating_add(chunk_size - 1).min(original_to)
WindowTo(current_from, chunk_size, original_to) ==
    Min(saturating_add(current_from, chunk_size - 1), original_to)

NextFromSkip(current_to) == checked_add(current_to, 2)

\* lines 74-77: current_to.checked_add(1)
NextFrom(current_to) == checked_add(current_to, 1)

ExtendFront(all_logs, chunk_logs) == chunk_logs \o all_logs

\* line 73: all_logs.extend(chunk_logs)
Extend(all_logs, chunk_logs) == all_logs \o chunk_logs

FailedNever(child) == FALSE

\* line 72, the ? operator: the sub-call returned Err
Failed(child) == ~child.ok

PropagatePartial(child, all_logs) == Ok(all_logs)

\* line 72, the ? operator on a failed sub-call: the invocation's result
Propagate(child, all_logs) == Err(child.err[1])

OriginalRangeWhole(range, suggested) ==
    IF range = None THEN <<0, MaxBlock>> ELSE range[1]

\* lines 54-55: extract_block_range(&filter).unwrap_or((suggested_from, suggested_to))
OriginalRange(range, suggested) == IF range = None THEN suggested ELSE range[1]

\* lines 44-64: what the invocation does with the provider's error e.
\* The set of outcomes: "err" (return Err(e)), "split" (walk the range), or
\* "panic" (line 61 overflowed in a build with overflow checks).
Decide(filter, depth, e) ==
    LET fail == [kind |-> "err", chunk_size |-> 0, original_from |-> 0, original_to |-> 0]
        s == parse_max_results_error(e)
    IN  IF s = None THEN {fail}
        ELSE LET chunk == ChunkSize(s[1][1], s[1][2]) IN
        IF chunk = None THEN {fail}
        ELSE LET x == extract_block_range(filter)
                 o == OriginalRange(x, s[1])
             IN
        IF o[1] > o[2] THEN {fail}
        ELSE {IF len.panic
              THEN [fail EXCEPT !.kind = "panic"]
              ELSE IF NoProgress(chunk[1], len.v, depth)
              THEN fail
              ELSE [kind |-> "split", chunk_size |-> chunk[1],
                    original_from |-> o[1], original_to |-> o[2]]
                : len \in plain_add(o[2] - o[1], 1)}

\* An invocation: its arguments, where it is suspended ("get_logs": awaiting
\* the provider, lines 38/41; "chunk": awaiting a window's sub-call, line 72)
\* and its locals.  resp, hint, windows and results are history: the
\* provider's answer, the outcome of parsing it (None while nothing was
\* parsed, else Some of what parse_max_results_error returned), the windows
\* issued so far and the results of the windows that returned Ok.
NewFrame(filter, depth) ==
    [filter |-> filter, depth |-> depth, at |-> "get_logs",
     chunk_size |-> 0, original_from |-> 0, original_to |-> 0,
     current_from |-> 0, current_to |-> 0, all_logs |-> <<>>,
     resp |-> None, hint |-> None, windows |-> <<>>, results |-> <<>>]

Top == stack[Len(stack)]
Pop == SubSeq(stack, 1, Len(stack) - 1)

\* The record of an invocation that returns res.
Returned(frame, res) ==
    [res |-> res, filter |-> frame.filter, depth |-> frame.depth,
     resp |-> frame.resp, hint |-> frame.hint, chunk_size |-> frame.chunk_size,
     original_from |-> frame.original_from, original_to |-> frame.original_to,
     windows |-> frame.windows, results |-> frame.results]

\* The invocation on top of the stack starts the window at current_from:
\* lines 70-72, up to the sub-call's first await.
StartWindow(frame, current_from) ==
    LET current_to == WindowTo(current_from, frame.chunk_size, frame.original_to)
        f == [frame EXCEPT !.at = "chunk", !.current_from = current_from,
                           !.current_to = current_to,
                           !.windows = Append(@, <<current_from, current_to>>)]
    IN  Append(Append(Pop, f),
               NewFrame(chunk_filter(frame.filter, current_from, current_to),
                        frame.depth + 1))

\* get_logs_with_retry, lines 23-28, up to the first await
GetLogsWithRetry ==
    /\ pc = "idle"
    /\ pc' = "running"
    /\ stack' = <<NewFrame(filter0, 0)>>
    /\ UNCHANGED <<filter0, provider, ret, result, rstate, call>>

\* The provider answers Ok: lines 38 and 41-42
ProviderOk ==
    /\ pc = "running" /\ stack # <<>> /\ ret = None /\ Top.at = "get_logs"
    /\ LET res == Ok(ProviderLogs(Top.filter)) IN
       /\ ret' = Some(Returned([Top EXCEPT !.resp = Some(res)], res))
       /\ stack' = Pop
    /\ UNCHANGED <<filter0, provider, pc, result, rstate, call>>

\* The provider answers Err(e): lines 38 and 41-72
ProviderErr ==
    /\ pc = "running" /\ stack # <<>> /\ ret = None /\ Top.at = "get_logs"
    /\ \E e \in ProviderErrors(Top.filter, Top.depth) :
        LET f == [Top EXCEPT !.resp = Some(Err(e))] IN
        IF BeyondCap(Top.depth)
        THEN /\ ret' = Some(Returned(f, Err(e)))
             /\ stack' = Pop
             /\ pc' = pc
        ELSE \E d \in Decide(Top.filter, Top.depth, e) :
             LET g == [f EXCEPT !.hint = Some(parse_max_results_error(e))] IN
             IF d.kind = "err"
             THEN /\ ret' = Some(Returned(g, Err(e)))
                  /\ stack' = Pop
                  /\ pc' = pc
             ELSE IF d.kind = "panic"
             THEN /\ pc' = "panicked"
                  /\ stack' = Append(Pop, g)
                  /\ ret' = ret
             ELSE /\ stack' = StartWindow([g EXCEPT !.chunk_size = d.chunk_size,
                                                    !.original_from = d.original_from,
                                                    !.original_to = d.original_to],
                                          d.original_from)
                  /\ ret' = ret
                  /\ pc' = pc
    /\ UNCHANGED <<filter0, provider, result, rstate, call>>

\* A window's sub-call has returned: lines 72-80
ChunkReturn ==
    /\ pc = "running" /\ stack # <<>> /\ ret # None /\ Top.at = "chunk"
    /\ LET child == ret[1].res IN
       IF Failed(child)
       THEN /\ ret' = Some(Returned(Top, Propagate(child, Top.all_logs)))
            /\ stack' = Pop
       ELSE LET f == [Top EXCEPT !.all_logs = Extend(@, child.logs),
                                 !.results = Append(@, <<Top.current_from, Top.current_to, child.logs>>)]
                next == NextFrom(Top.current_to)
            IN  IF next # None /\ next[1] <= Top.original_to
                THEN /\ stack' = StartWindow(f, next[1])
                     /\ ret' = None
                ELSE /\ ret' = Some(Returned(f, Ok(f.all_logs)))
                     /\ stack' = Pop
    /\ UNCHANGED <<filter0, provider, pc, result, rstate, call>>

\* get_logs_with_retry returns what the root invocation returned: line 27
Finish ==
    /\ pc = "running" /\ stack = <<>> /\ ret # None
    /\ result' = Some(ret[1].res)
    /\ pc' = "done"
    /\ UNCHANGED <<filter0, provider, stack, ret, rstate, call>>

\* The filters get_logs_with_retry is called with: every pair of concrete
\* bounds (also inverted ones), and symbolic or absent bounds.
Filters ==
    {Filter(Some(Number(f)), Some(Number(t))) : f \in 0..MaxBlock, t \in 0..MaxBlock}
    \cup {Filter(None, None), Filter(Some(Number(0)), Some(Latest)),
          Filter(Some(Latest), Some(Latest))}

Init ==
    /\ filter0 \in Filters
    /\ provider \in {"honest", "lossy"}
    /\ pc = "idle"
    /\ stack = <<>>
    /\ ret = None
    /\ result = None
    /\ rstate = <<>>
    /\ call = <<>>

Next == GetLogsWithRetry \/ ProviderOk \/ ProviderErr \/ ChunkReturn \/ Finish

Spec == Init /\ [][Next]_vars

(***************************************************************************)
(* Properties of the fetcher                                               *)
(***************************************************************************)
\* The invocations that exist in a state: the suspended ones and the one
\* that has just returned.
Concrete(filter) == extract_block_range(filter) # None
FromOf(filter) == extract_block_range(filter)[1][1]
ToOf(filter) == extract_block_range(filter)[1][2]

Split(r) == r.windows # <<>>
Completed == {ret[i] : i \in 1..Len(ret)}
Splitting == {stack[i] : i \in {j \in 1..Len(stack) : stack[j].at = "chunk"}}

RespErr(r) == r.resp # None /\ ~r.resp[1].ok
RespErrOf(r) == r.resp[1].err[1]

WLen(w) == w[2] - w[1] + 1

\* C1: with an honest provider, an Ok result of get_logs_with_retry on
\* concrete bounds F <= T is exactly the logs of blocks F..T in ascending
\* block order, nothing omitted and nothing duplicated.
C1_CompleteLogs ==
    (/\ pc = "done" /\ provider = "honest"
     /\ Concrete(filter0) /\ FromOf(filter0) <= ToOf(filter0)
     /\ result[1].ok)
    => result[1].logs = LogsOfRange(FromOf(filter0), ToOf(filter0))

C1_Witness ==
    /\ pc = "done" /\ provider = "honest" /\ result[1].ok
    /\ Concrete(filter0) /\ FromOf(filter0) < ToOf(filter0)
    /\ Len(ret[1].windows) >= 3
    /\ ret[1].chunk_size = 2

\* C2: the windows an invocation issues when it splits [F,T] with a chunk
\* size C, 1 <= C < T-F+1, start at F, are contiguous and non-overlapping,
\* have length exactly C except possibly a shorter last one, and, once the
\* invocation returns Ok, end at T.
WindowsPartition(r, done) ==
    LET w == r.windows
        F == r.original_from
        T == r.original_to
        C == r.chunk_size
    IN  /\ w[1][1] = F
        /\ \A i \in 1..Len(w) :
            /\ w[i][1] <= w[i][2] /\ w[i][2] <= T
            /\ \/ WLen(w[i]) = C
               \/ i = Len(w) /\ w[i][2] = T /\ WLen(w[i]) < C
        /\ \A i \in 1..(Len(w) - 1) : w[i + 1][1] = w[i][2] + 1
        /\ done => w[Len(w)][2] = T

Splits(r) ==
    /\ Split(r)
    /\ 1 <= r.chunk_size
    /\ r.chunk_size < r.original_to - r.original_from + 1

C2_WindowsPartition ==
    /\ \A r \in Completed : Splits(r) => WindowsPartition(r, r.res.ok)
    /\ \A r \in Splitting : Splits(r) => WindowsPartition(r, FALSE)

C2_Witness ==
    \E r \in Completed :
        /\ Splits(r) /\ r.res.ok /\ Len(r.windows) >= 3
        /\ WLen(r.windows[Len(r.windows)]) < r.chunk_size

\* C3: an invocation whose provider error carries no usable hint (not a
\* suggested range, suggestedTo < suggestedFrom, a chunk size that overflows)
\* or whose own concrete range is inverted returns exactly that error and
\* issues no sub-query.
Unusable(r) ==
    LET e == RespErrOf(r) IN
    \/ e.kind # "hint"
    \/ e.b < e.a
    \/ e.b - e.a + 1 > MaxBlock
    \/ Concrete(r.filter) /\ FromOf(r.filter) > ToOf(r.filter)

C3_FailClosed ==
    /\ \A r \in Completed :
        (RespErr(r) /\ Unusable(r)) => (r.res = r.resp[1] /\ r.windows = <<>>)
    /\ \A r \in Splitting : ~Unusable(r)

C3_Witness ==
    \E r \in Completed :
        /\ RespErr(r) /\ r.res = r.resp[1] /\ r.depth = 0
        /\ RespErrOf(r).kind = "hint" /\ RespErrOf(r).b < RespErrOf(r).a

\* C4: at depth > 0, a parseable hint whose chunk size is >= the length of
\* the invocation's own range makes the invocation fail with that error and
\* issue no sub-query; no invocation at depth >= 2 queries the range its
\* parent queried.
HintAtLeastRange(r) ==
    LET e == RespErrOf(r) IN
    /\ e.kind = "hint" /\ e.a <= e.b
    /\ Concrete(r.filter)
    /\ e.b - e.a + 1 >= ToOf(r.filter) - FromOf(r.filter) + 1

C4_NoProgressGuard ==
    /\ \A r \in Completed :
        (r.depth > 0 /\ RespErr(r) /\ HintAtLeastRange(r))
            => (r.res = r.resp[1] /\ r.windows = <<>>)
    /\ \A r \in Splitting : r.depth > 0 => ~HintAtLeastRange(r)
    /\ \A i \in 2..Len(stack) :
        stack[i].depth >= 2 => stack[i].filter # stack[i - 1].filter

C4_Witness ==
    \E r \in Completed :
        /\ r.depth > 0 /\ r.depth <= MAX_RECURSION_DEPTH
        /\ RespErr(r) /\ HintAtLeastRange(r) /\ r.res = r.resp[1]
        /\ ToOf(r.filter) > FromOf(r.filter)

\* The provider answers every call and the fetcher's own steps are always
\* taken: every enabled step eventually happens.
FairSpec == Spec /\ WF_vars(Next)

\* C5: every call of get_logs_with_retry eventually returns a result.
C5_Terminates == <>(pc = "done")

\* The call ends, by returning or by aborting.
EndsOrAborts == <>(pc \in {"done", "panicked"})

\* C6: no invocation runs deeper than one beyond the cap; an invocation
\* beyond the cap asks the provider once, never parses the answer, issues no
\* window and returns the provider's answer.
C6_DepthCap ==
    /\ \A i \in 1..Len(stack) : stack[i].depth <= MAX_RECURSION_DEPTH + 1
    /\ \A r \in Completed :
        /\ r.depth <= MAX_RECURSION_DEPTH + 1
        /\ r.depth > MAX_RECURSION_DEPTH
            => (r.hint = None /\ r.windows = <<>> /\ r.res = r.resp[1])
    /\ \A r \in Splitting : r.depth <= MAX_RECURSION_DEPTH

C6_Witness ==
    \E r \in Completed :
        /\ r.depth = MAX_RECURSION_DEPTH + 1
        /\ RespErr(r) /\ RespErrOf(r).kind = "hint" /\ r.res = r.resp[1]

\* C7: when a window's sub-call returns Err, the splitting invocation returns
\* Err with exactly that error, and so does get_logs_with_retry at the root:
\* the logs collected from earlier windows are not returned.
C7_WindowErrorPropagates ==
    [][(pc = "running" /\ ret # None /\ ~ret[1].res.ok)
        => IF stack = <<>>
           THEN result' = Some(ret[1].res)
           ELSE /\ ret' # None
                /\ ret'[1].res = ret[1].res
                /\ ret'[1].depth = Top.depth
                /\ stack' = Pop]_vars

C7_Witness ==
    \E r \in Completed :
        /\ Split(r) /\ r.results # <<>> /\ ~r.res.ok
        /\ r.res.err[1].depth > r.depth

\* C8: an Ok result of a splitting invocation is the concatenation of its
\* windows' results in ascending window order.
RECURSIVE ConcatResults(_)
ConcatResults(rs) ==
    IF rs = <<>> THEN <<>>
    ELSE ConcatResults(SubSeq(rs, 1, Len(rs) - 1)) \o rs[Len(rs)][3]

C8_WindowOrder ==
    \A r \in Completed :
        (Split(r) /\ r.res.ok)
            => /\ Len(r.results) = Len(r.windows)
               /\ \A i \in 1..Len(r.windows) :
                    <<r.results[i][1], r.results[i][2]>> = r.windows[i]
               /\ r.res.logs = ConcatResults(r.results)

C8_Witness ==
    \E r \in Completed :
        /\ Split(r) /\ r.res.ok /\ provider = "lossy"
        /\ Len(r.windows) >= 3
        /\ r.results[1][3] # r.results[2][3]

(***************************************************************************)
(* JSON values (serde_json::Value).  Every value is a record of the same   *)
(* shape: kind, the scalar's payload n, an array's items, an object's      *)
(* fields as a set of <<key, value>> pairs with distinct keys.             *)
(***************************************************************************)
JNull == [kind |-> "null", n |-> 0, items |-> <<>>, fields |-> {}]
JNum(n) == [kind |-> "number", n |-> n, items |-> <<>>, fields |-> {}]
JArr(items) == [kind |-> "array", n |-> 0, items |-> items, fields |-> {}]
JObj(fields) == [kind |-> "object", n |-> 0, items |-> <<>>, fields |-> fields]

\* report.rs:10
IGNORED_FIELDS == {"error"}

\* A filter that returns as soon as it has removed a field of an object.
RECURSIVE filter_once(_)
filter_once(value) ==
    IF value.kind = "object"
    THEN IF \E x \in value.fields : x[1] \in IGNORED_FIELDS
         THEN JObj({x \in value.fields : x[1] \notin IGNORED_FIELDS})
         ELSE JObj({<<kv[1], filter_once(kv[2])>> : kv \in value.fields})
    ELSE IF value.kind = "array"
    THEN JArr([i \in 1..Len(value.items) |-> filter_once(value.items[i])])
    ELSE value

\* A filter that leaves arrays as they are.
RECURSIVE filter_objects_only(_)
filter_objects_only(value) ==
    IF value.kind = "object"
    THEN JObj({<<kv[1], filter_objects_only(kv[2])>> :
                  kv \in {x \in value.fields : x[1] \notin IGNORED_FIELDS}})
    ELSE value

\* report.rs:69-80
RECURSIVE filter_ignored_fields(_)
filter_ignored_fields(value) ==
    IF value.kind = "object"
    THEN JObj({<<kv[1], filter_ignored_fields(kv[2])>> :
                  kv \in {x \in value.fields : x[1] \notin IGNORED_FIELDS}})
    ELSE IF value.kind = "array"
    THEN JArr([i \in 1..Len(value.items) |-> filter_ignored_fields(value.items[i])])
    ELSE value

json_equal(actual, expected) == actual = expected

\* assert_json_include!(actual, expected) does not panic: every field of an
\* expected object is in the actual object with an included value, every
\* element of an expected array is included in the actual element at the same
\* index, scalars are equal.
RECURSIVE json_include(_, _)
json_include(actual, expected) ==
    IF actual.kind # expected.kind THEN FALSE
    ELSE IF expected.kind = "object"
    THEN \A e \in expected.fields :
            \E a \in actual.fields : a[1] = e[1] /\ json_include(a[2], e[2])
    ELSE IF expected.kind = "array"
    THEN \A i \in 1..Len(expected.items) :
            /\ i <= Len(actual.items)
            /\ json_include(actual.items[i], expected.items[i])
    ELSE actual = expected

\* report.rs:83-106: None, or Some(description of the discrepancy)
verify_missing_or_mismatch(rpc1, rpc2) ==
    IF json_include(rpc1, rpc2) THEN None
    ELSE Some([actual |-> rpc1, expected |-> rpc2])

(***************************************************************************)
(* report (report.rs:15-65)                                                *)
(***************************************************************************)
\* Most outcomes the report is called with, over all its groups.
MaxOutcomes == 3
\* Most groups the report is called with.
MaxGroups == 2

TestOk == [kind |-> "Ok", rpc1 |-> JNull, rpc2 |-> JNull, args |-> None, err |-> ""]
Diff(rpc1, rpc2, args) ==
    [kind |-> "Diff", rpc1 |-> rpc1, rpc2 |-> rpc2, args |-> args, err |-> ""]
Rpc1Err(err) == [kind |-> "Rpc1Err", rpc1 |-> JNull, rpc2 |-> JNull, args |-> None, err |-> err]
Rpc2Err(err) == [kind |-> "Rpc2Err", rpc1 |-> JNull, rpc2 |-> JNull, args |-> None, err |-> err]

\* Responses the two endpoints disagree on.
ValA == JObj({<<"a", JNum(1)>>})
ValA2 == JObj({<<"a", JNum(2)>>})
ValAB == JObj({<<"a", JNum(1)>>, <<"b", JNum(2)>>})
ValAE == JObj({<<"a", JNum(1)>>, <<"error", JNum(9)>>})

\* The test outcomes a run can hand to the report.
Outcomes ==
    {TestOk, Rpc1Err("refused"), Rpc2Err("refused"),
     Diff(ValAB, ValA, None),                       \* rpc1 has an extra field
     Diff(ValA, ValAE, None),                       \* rpc2 has the ignored field
     Diff(JArr(<<ValA>>), JArr(<<ValAE>>), None),   \* the same inside an array
     Diff(ValA, ValAB, Some(7)),                    \* rpc1 lacks a field
     Diff(ValA2, ValA, None)}                       \* rpc1 holds another value

\* The lines report prints.
Line(kind, title, name, args, err, diff) ==
    [kind |-> kind, title |-> title, name |-> name, args |-> args, err |-> err,
     diff |-> diff]

EmitUntilFailure(out, lines) ==
    IF \E i \in 1..Len(out) : out[i].kind \in {"failure", "error"}
    THEN out ELSE out \o lines

\* println!
Emit(out, lines) == out \o lines

AssignOnly(passed, passed_title) == passed_title

\* line 56: passed &= passed_title
AndAssign(passed, passed_title) == passed /\ passed_title

\* lines 24-50: the lines one outcome prints and the group's flag after it
Examine(title, name, test_result, passed_title) ==
    IF test_result.kind = "Ok" THEN [lines |-> <<>>, passed_title |-> passed_title]
    ELSE IF test_result.kind = "Diff"
    THEN LET rpc1 == filter_ignored_fields(test_result.rpc1)
             rpc2 == filter_ignored_fields(test_result.rpc2)
             diffs == verify_missing_or_mismatch(rpc1, rpc2)
         IN  IF diffs = None THEN [lines |-> <<>>, passed_title |-> passed_title]
             ELSE [lines |->
                      (IF passed_title
                       THEN <<Line("failed", title, 0, None, "", None)>> ELSE <<>>)
                      \o <<Line("failure", 0, name, None, "", None)>>
                      \o (IF test_result.args # None
                          THEN <<Line("args", 0, 0, test_result.args, "", None)>>
                          ELSE <<>>)
                      \o <<Line("diffs", 0, 0, None, "", diffs)>>,
                   passed_title |-> FALSE]
    ELSE [lines |-> <<Line("failed", title, 0, None, "", None),
                      Line("error", 0, name, None, test_result.err, None)>>,
          passed_title |-> FALSE]

\* The reconciler's state: the argument results_by_block, the loop positions
\* (group gi, outcome ri), the locals passed and passed_title, the lines
\* printed so far, the outcomes examined so far and the value returned.
ReportState(results_by_block) ==
    [pc |-> "start", results_by_block |-> results_by_block, gi |-> 0, ri |-> 0,
     passed |-> TRUE, passed_title |-> TRUE, out |-> <<>>, examined |-> <<>>,
     ret |-> None]

\* lines 16-18
ReportBegin ==
    /\ rstate.pc = "start"
    /\ rstate' = [rstate EXCEPT !.pc = "groups", !.passed = TRUE, !.gi = 1,
                     !.out = Emit(@, <<Line("banner", 0, 0, None, "", None)>>)]
    /\ UNCHANGED <<filter0, provider, pc, stack, ret, result, call>>

\* lines 20-21: the next group, if any
ReportGroup ==
    /\ rstate.pc = "groups"
    /\ rstate.gi <= Len(rstate.results_by_block)
    /\ rstate' = [rstate EXCEPT !.pc = "results", !.passed_title = TRUE, !.ri = 1]
    /\ UNCHANGED <<filter0, provider, pc, stack, ret, result, call>>

\* lines 23-51: the next outcome of the group
ReportResult ==
    /\ rstate.pc = "results"
    /\ LET group == rstate.results_by_block[rstate.gi] IN
       /\ rstate.ri <= Len(group.results)
       /\ LET r == group.results[rstate.ri]
              x == Examine(group.title, r.name, r.result, rstate.passed_title)
          IN  rstate' = [rstate EXCEPT !.ri = @ + 1,
                            !.passed_title = x.passed_title,
                            !.out = Emit(@, x.lines),
                            !.examined = Append(@, <<rstate.gi, rstate.ri>>)]
    /\ UNCHANGED <<filter0, provider, pc, stack, ret, result, call>>

\* lines 53-56: the group's verdict
ReportGroupEnd ==
    /\ rstate.pc = "results"
    /\ LET group == rstate.results_by_block[rstate.gi] IN
       /\ rstate.ri > Len(group.results)
       /\ rstate' = [rstate EXCEPT !.pc = "groups", !.gi = @ + 1,
                        !.passed = AndAssign(@, rstate.passed_title),
                        !.out = Emit(@, IF rstate.passed_title
                                        THEN <<Line("passed", group.title, 0, None, "", None)>>
                                        ELSE <<>>)]
    /\ UNCHANGED <<filter0, provider, pc, stack, ret, result, call>>

\* lines 59-64
ReportReturn ==
    /\ rstate.pc = "groups"
    /\ rstate.gi > Len(rstate.results_by_block)
    /\ rstate' = [rstate EXCEPT !.pc = "returned",
                     !.out = Emit(@, <<Line("rule", 0, 0, None, "", None)>>),
                     !.ret = Some(IF rstate.passed THEN "Ok" ELSE "Err")]
    /\ UNCHANGED <<filter0, provider, pc, stack, ret, result, call>>

\* The arguments of report: up to MaxGroups groups holding up to MaxOutcomes
\* outcomes in all.  Group i is titled i, its j-th test is named j.
RECURSIVE SumSeq(_)
SumSeq(q) == IF q = <<>> THEN 0 ELSE q[1] + SumSeq(Tail(q))

Shapes ==
    {sz \in UNION {[1..g -> 0..MaxOutcomes] : g \in 0..MaxGroups} :
        SumSeq(sz) <= MaxOutcomes}

Grouped(sz, flat) ==
    [i \in 1..Len(sz) |->
        [title |-> i,
         results |-> [j \in 1..sz[i] |->
                        [name |-> j,
                         result |-> flat[SumSeq(SubSeq(sz, 1, i - 1)) + j]]]]]

ReportInit ==
    /\ filter0 = Filter(None, None)
    /\ provider = "honest"
    /\ pc = "idle"
    /\ stack = <<>>
    /\ ret = None
    /\ result = None
    /\ call = <<>>
    /\ \E sz \in Shapes :
        \E flat \in [1..SumSeq(sz) -> Outcomes] :
            rstate = ReportState(Grouped(sz, flat))

ReportNext ==
    ReportBegin \/ ReportGroup \/ ReportResult \/ ReportGroupEnd \/ ReportReturn

ReportSpec == ReportInit /\ [][ReportNext]_vars

(***************************************************************************)
(* Properties of the reconciler                                            *)
(***************************************************************************)
\* A provider failure, or a Diff whose filtered rpc1 does not include the
\* filtered rpc2.
Reportable(o) ==
    \/ o.kind \in {"Rpc1Err", "Rpc2Err"}
    \/ /\ o.kind = "Diff"
       /\ ~json_include(filter_ignored_fields(o.rpc1), filter_ignored_fields(o.rpc2))

GroupFailed(group) ==
    \E j \in 1..Len(group.results) : Reportable(group.results[j].result)

\* C9: report returns an error exactly when some group failed, a group being
\* failed exactly when it holds a provider failure or a Diff that is not
\* benign.
C9_FailsIffGroupFailed ==
    LET groups == rstate.results_by_block IN
    /\ rstate.pc = "returned"
        => (rstate.ret = Some("Err") <=> \E i \in 1..Len(groups) : GroupFailed(groups[i]))
    /\ (rstate.pc = "results" /\ rstate.ri > Len(groups[rstate.gi].results))
        => (rstate.passed_title <=> ~GroupFailed(groups[rstate.gi]))

C9_Witness ==
    LET groups == rstate.results_by_block IN
    /\ rstate.pc = "returned" /\ rstate.ret = Some("Err")
    /\ Len(groups) = 2
    /\ GroupFailed(groups[1]) /\ ~GroupFailed(groups[2])
    /\ \E j \in 1..Len(groups[2].results) : groups[2].results[j].result.kind = "Diff"

\* C10: when report returns, every outcome of every group has been examined,
\* in order, and every reportable failure of every group has been printed.
RECURSIVE Positions(_, _, _)
Positions(groups, i, j) ==
    IF i > Len(groups) THEN <<>>
    ELSE IF j > Len(groups[i].results) THEN Positions(groups, i + 1, 1)
    ELSE <<<<i, j>>>> \o Positions(groups, i, j + 1)

FailureOf(groups, p) ==
    LET r == groups[p[1]].results[p[2]] IN
    IF r.result.kind = "Diff" THEN [kind |-> "failure", name |-> r.name, err |-> ""]
    ELSE [kind |-> "error", name |-> r.name, err |-> r.result.err]

IsReportableAt(groups, p) == Reportable(groups[p[1]].results[p[2]].result)

RECURSIVE ExpectedFailures(_, _)
ExpectedFailures(groups, ps) ==
    IF ps = <<>> THEN <<>>
    ELSE (IF IsReportableAt(groups, ps[1]) THEN <<FailureOf(groups, ps[1])>> ELSE <<>>)
         \o ExpectedFailures(groups, Tail(ps))

RECURSIVE PrintedFailures(_)
PrintedFailures(out) ==
    IF out = <<>> THEN <<>>
    ELSE (IF out[1].kind \in {"failure", "error"}
          THEN <<[kind |-> out[1].kind, name |-> out[1].name, err |-> out[1].err]>>
          ELSE <<>>)
         \o PrintedFailures(Tail(out))

C10_NoShortCircuit ==
    LET groups == rstate.results_by_block
        all == Positions(groups, 1, 1)
    IN  rstate.ret # None
        => /\ rstate.examined = all
           /\ PrintedFailures(rstate.out) = ExpectedFailures(groups, all)

C10_Witness ==
    LET groups == rstate.results_by_block IN
    /\ rstate.pc = "returned"
    /\ Len(groups) = 2
    /\ Len(groups[1].results) = 2
    /\ \A j \in 1..2 : Reportable(groups[1].results[j].result)
    /\ GroupFailed(groups[2])
    /\ Len(PrintedFailures(rstate.out)) = 3

(***************************************************************************)
(* The pure functions on their own: filter_ignored_fields,                 *)
(* verify_missing_or_mismatch and parse_max_results_error applied to       *)
(* arguments drawn from bounded sets.                                      *)
(***************************************************************************)
\* Largest number a JSON scalar holds.
MaxScalar == 2

JsonKeys == {"a", "error"}
JsonScalars == {JNull} \cup {JNum(n) : n \in 1..MaxScalar}

\* Objects with keys among JsonKeys and arrays of up to two items over V.
ObjectsOver(V) ==
    UNION {{JObj({<<k, f[k]>> : k \in D}) : f \in [D -> V]} : D \in SUBSET JsonKeys}
ArraysOver(V) ==
    {JArr(items) : items \in UNION {[1..n -> V] : n \in {0, 1, 2}}}

\* Values of nesting depth up to one, up to two.
JsonFlat == JsonScalars \cup ObjectsOver(JsonScalars) \cup ArraysOver(JsonScalars)
JsonValues == JsonScalars \cup ObjectsOver(JsonFlat) \cup ArraysOver(JsonFlat)

\* The values verify_missing_or_mismatch is compared on: flat values, and
\* flat values inside an object or an array.
PairValues ==
    JsonFlat \cup {JObj({<<"a", v>>}) : v \in JsonFlat} \cup {JArr(<<v>>) : v \in JsonFlat}

Call(fn, a, b, json, diffs, msg, parsed) ==
    [fn |-> fn, a |-> a, b |-> b, json |-> json, diffs |-> diffs, msg |-> msg,
     parsed |-> parsed]

NoCall == Call("none", JNull, JNull, JNull, None, <<>>, None)

CallFilter ==
    /\ call = NoCall
    /\ \E v \in JsonValues :
        call' = Call("filter_ignored_fields", v, JNull, filter_ignored_fields(v),
                     None, <<>>, None)
    /\ UNCHANGED <<filter0, provider, pc, stack, ret, result, rstate>>

CallVerify ==
    /\ call = NoCall
    /\ \E a \in PairValues, b \in PairValues :
        call' = Call("verify_missing_or_mismatch", a, b, JNull,
                     verify_missing_or_mismatch(a, b), <<>>, None)
    /\ UNCHANGED <<filter0, provider, pc, stack, ret, result, rstate>>

\* Longest message, in tokens.
MaxTokens == 5

\* The pieces error messages are made of: the two markers, digits, the dash
\* and another character.
MsgTokens == {MsgMaxResults, MsgRangePrefix, <<"0">>, <<"1">>, <<"-">>, <<",">>}

RECURSIVE Concat(_)
Concat(ts) == IF ts = <<>> THEN <<>> ELSE ts[1] \o Concat(Tail(ts))

CallParse ==
    /\ call = NoCall
    /\ \E n \in 0..MaxTokens : \E ts \in [1..n -> MsgTokens] :
        call' = Call("parse_max_results_error", JNull, JNull, JNull, None,
                     Concat(ts), parse_message(Concat(ts)))
    /\ UNCHANGED <<filter0, provider, pc, stack, ret, result, rstate>>

\* The caller is done with the value of the call.
CallDone ==
    /\ call # NoCall
    /\ call' = NoCall
    /\ UNCHANGED <<filter0, provider, pc, stack, ret, result, rstate>>

FnInit ==
    /\ filter0 = Filter(None, None)
    /\ provider = "honest"
    /\ pc = "idle"
    /\ stack = <<>>
    /\ ret = None
    /\ result = None
    /\ rstate = <<>>
    /\ call = NoCall

FnNext == CallFilter \/ CallVerify \/ CallParse \/ CallDone

FnSpec == FnInit /\ [][FnNext]_vars

(***************************************************************************)
(* Properties of the pure functions                                        *)
(***************************************************************************)
IsVerify == call.fn = "verify_missing_or_mismatch"
BothObjects == call.a.kind = "object" /\ call.b.kind = "object"
HasKey(v, k) == \E f \in v.fields : f[1] = k
IsScalar(v) == v.kind \notin {"object", "array"}

\* The actual object has every field of the expected one, with equal value.
HasAllEqual == \A f \in call.b.fields : f \in call.a.fields
\* The actual object lacks a field of the expected one.
LacksField == \E f \in call.b.fields : ~HasKey(call.a, f[1])

\* C11 as stated: no discrepancy when actual has every field of expected
\* with equal values (extra fields allowed); a discrepancy whenever actual
\* lacks a field of expected or holds a different value for a shared field.
C11_Asymmetric ==
    (IsVerify /\ BothObjects)
    => /\ HasAllEqual => call.diffs = None
       /\ LacksField => call.diffs # None
       /\ (\E f \in call.b.fields, g \in call.a.fields : g[1] = f[1] /\ g[2] # f[2])
            => call.diffs # None

\* C11 amended: a different value for a shared field is a discrepancy when
\* the expected value is a scalar or of another JSON type; for nested objects
\* and arrays the same rule applies to the two nested values, so that there is
\* no discrepancy exactly when no field of expected is missing and every
\* shared field's actual value passes the check against the expected one.
C11_AsymmetricNested ==
    (IsVerify /\ BothObjects)
    => /\ HasAllEqual => call.diffs = None
       /\ LacksField => call.diffs # None
       /\ (\E f \in call.b.fields, g \in call.a.fields :
              /\ g[1] = f[1] /\ g[2] # f[2]
              /\ (IsScalar(f[2]) \/ g[2].kind # f[2].kind))
            => call.diffs # None
       /\ call.diffs = None
            <=> \A f \in call.b.fields : \E g \in call.a.fields :
                    g[1] = f[1] /\ verify_missing_or_mismatch(g[2], f[2]) = None

C11_Witness ==
    /\ IsVerify /\ BothObjects /\ call.diffs = None
    /\ \E f \in call.b.fields, g \in call.a.fields :
        /\ g[1] = f[1] /\ g[2] # f[2]
        /\ g[2].kind = "object" /\ f[2].kind = "object" /\ f[2].fields # {}

IsFilter == call.fn = "filter_ignored_fields"

\* C12: filter_ignored_fields is idempotent: filtering the value it returned
\* returns that value unchanged, for every JSON value.
C12_Idempotent ==
    IsFilter => filter_ignored_fields(call.json) = call.json

\* An ignored field at the top and another one inside a kept field.
C12_Witness ==
    /\ IsFilter
    /\ HasKey(call.a, "error")
    /\ \E f \in call.a.fields :
        f[1] \notin IGNORED_FIELDS /\ f[2].kind = "object" /\ HasKey(f[2], "error")
    /\ call.json # call.a

\* No object of the value, at any depth, has an ignored key.
RECURSIVE NoIgnoredKey(_)
NoIgnoredKey(v) ==
    IF v.kind = "object"
    THEN \A f \in v.fields : f[1] \notin IGNORED_FIELDS /\ NoIgnoredKey(f[2])
    ELSE IF v.kind = "array"
    THEN \A i \in 1..Len(v.items) : NoIgnoredKey(v.items[i])
    ELSE TRUE

\* The output is the input but for the ignored keys: the same kind, the same
\* other keys, the same array length and order, the same scalars.
RECURSIVE SameButIgnored(_, _)
SameButIgnored(in, out) ==
    IF in.kind = "object"
    THEN /\ out.kind = "object"
         /\ {f[1] : f \in out.fields} = {f[1] : f \in in.fields} \ IGNORED_FIELDS
         /\ \A f \in in.fields : \A g \in out.fields :
                f[1] = g[1] => SameButIgnored(f[2], g[2])
    ELSE IF in.kind = "array"
    THEN /\ out.kind = "array"
         /\ Len(out.items) = Len(in.items)
         /\ \A i \in 1..Len(in.items) : SameButIgnored(in.items[i], out.items[i])
    ELSE out = in

\* C13: the value filter_ignored_fields returns contains no object, at any
\* depth and also inside arrays, with the key "error", and is otherwise
\* identical to the input.
C13_NoIgnoredKey ==
    IsFilter => NoIgnoredKey(call.json) /\ SameButIgnored(call.a, call.json)

\* An ignored key inside an object inside an array, next to a kept key.
C13_Witness ==
    /\ IsFilter
    /\ call.a.kind = "array"
    /\ \E i \in 1..Len(call.a.items) :
        /\ call.a.items[i].kind = "object"
        /\ HasKey(call.a.items[i], "error") /\ HasKey(call.a.items[i], "a")
    /\ NoIgnoredKey(call.json)

IsFailureLine(l) == l.kind \in {"failure", "error"}
\* The failure records printed so far, in order.
FailureLines == SelectSeq(rstate.out, IsFailureLine)

RECURSIVE ReportablePositions(_, _)
ReportablePositions(groups, ps) ==
    IF ps = <<>> THEN <<>>
    ELSE (IF IsReportableAt(groups, ps[1]) THEN <<ps[1]>> ELSE <<>>)
         \o ReportablePositions(groups, Tail(ps))

\* C14: the failure record of a provider failure is attributed to the side
\* that failed: the records printed for an Rpc1Err and for an Rpc2Err with
\* the same error under the same test name differ.
C14_SideAttributed ==
    LET groups == rstate.results_by_block
        at == ReportablePositions(groups, Positions(groups, 1, 1))
        OutcomeAt(k) == groups[at[k][1]].results[at[k][2]]
    IN  (rstate.ret # None /\ Len(FailureLines) = Len(at))
        => \A i \in 1..Len(at) : \A j \in 1..Len(at) :
              ( /\ OutcomeAt(i).result.kind = "Rpc1Err"
                /\ OutcomeAt(j).result.kind = "Rpc2Err"
                /\ OutcomeAt(i).result.err = OutcomeAt(j).result.err
                /\ OutcomeAt(i).name = OutcomeAt(j).name )
              => FailureLines[i] # FailureLines[j]

IsParse == call.fn = "parse_max_results_error"

At(msg, pat, i) == SubSeq(msg, i, i + Len(pat) - 1) = pat

\* The ranges the message spells in the stated format: "max results", and
\* somewhere after it "range ", then two unsigned integers separated by one
\* dash, then the end of the message or a character that is neither a digit
\* nor a dash.
StatedRanges(msg) ==
    {<<parse_u64(SubSeq(msg, a, d - 1))[1], parse_u64(SubSeq(msg, d + 1, z))[1]>> :
        <<a, d, z>> \in
            {t \in (1..Len(msg)) \X (1..Len(msg)) \X (1..Len(msg)) :
                /\ t[1] < t[2] /\ t[2] < t[3]
                /\ t[1] > Len(MsgRangePrefix)
                /\ At(msg, MsgRangePrefix, t[1] - Len(MsgRangePrefix))
                /\ \E m \in 1..(t[1] - Len(MsgRangePrefix) - Len(MsgMaxResults)) :
                      At(msg, MsgMaxResults, m)
                /\ msg[t[2]] = "-"
                /\ parse_u64(SubSeq(msg, t[1], t[2] - 1)) # None
                /\ parse_u64(SubSeq(msg, t[2] + 1, t[3])) # None
                /\ (t[3] = Len(msg)
                    \/ (~is_ascii_digit(msg[t[3] + 1]) /\ msg[t[3] + 1] # "-"))}}

\* C15: parse_max_results_error returns a range exactly when the message
\* contains "max results" and, somewhere after it, "range " followed by two
\* unsigned integers separated by a single dash and terminated by the first
\* character that is neither a digit nor a dash, and then it returns that
\* range; for every other message it returns no match.
C15_ParsesExactly ==
    IsParse
    => /\ call.parsed # None <=> StatedRanges(call.msg) # {}
       /\ call.parsed # None => call.parsed[1] \in StatedRanges(call.msg)

\* The top-level invocation: suspended at the bottom of the stack, or returned.
Roots ==
    IF stack # <<>> THEN {stack[1]}
    ELSE {r \in Completed : r.depth = 0}

IsNumber(opt) == opt # None /\ opt[1].tag = "Number"

\* The hint parsed from the provider's answer to the invocation r.
Hinted(r) == r.hint # None /\ r.hint[1] # None
HintOf(r) == r.hint[1][1]

\* C16 as stated: a top-level query whose from or to is not a concrete number
\* and that is rejected with a parseable hint (sFrom, sTo) issues exactly one
\* sub-query, with the bounds [sFrom, sTo]; extract_block_range yields a range
\* only when both bounds are concrete numbers.
C16_SuggestedAsFull ==
    /\ \A r \in Roots :
        (~Concrete(r.filter) /\ Hinted(r)) => r.windows = <<HintOf(r)>>
    /\ Concrete(filter0) => (IsNumber(filter0.from) /\ IsNumber(filter0.to))

\* C16 amended: the same for a hint with sFrom <= sTo whose length
\* sTo - sFrom + 1 fits the integer type; an inverted hint or one spanning
\* the whole type ends the call with the provider's error and no sub-query.
C16_UsableSuggestedAsFull ==
    /\ \A r \in Roots :
        (~Concrete(r.filter) /\ Hinted(r))
        => IF HintOf(r)[1] <= HintOf(r)[2] /\ HintOf(r)[2] - HintOf(r)[1] + 1 <= MaxBlock
           THEN pc # "panicked" /\ r.windows = <<HintOf(r)>>
           ELSE r.windows = <<>> /\ r \in Completed /\ r.res = r.resp[1]
    /\ Concrete(filter0) => (IsNumber(filter0.from) /\ IsNumber(filter0.to))

\* The call on a query without concrete bounds has returned the logs of the
\* one window the hint named.
C16_Witness ==
    /\ pc = "done" /\ result[1].ok
    /\ ~Concrete(filter0)
    /\ \E r \in Roots :
        /\ Hinted(r) /\ HintOf(r)[1] < HintOf(r)[2]
        /\ r.windows = <<HintOf(r)>>
        /\ Len(r.results) = 1

\* The queries sent to the provider so far that are still on record: those of
\* the invocations on the stack and of the invocation that has just returned.
Queried == {stack[i].filter : i \in 1..Len(stack)} \cup {r.filter : r \in Completed}

Within(filter, F, T) ==
    /\ Concrete(filter)
    /\ F <= FromOf(filter) /\ FromOf(filter) <= ToOf(filter) /\ ToOf(filter) <= T

\* C17: for a top-level query with concrete bounds F <= T, every query sent
\* to the provider, at any recursion depth, has concrete bounds [a, b] with
\* F <= a <= b <= T.
C17_Containment ==
    (Concrete(filter0) /\ FromOf(filter0) <= ToOf(filter0))
    => \A q \in Queried : Within(q, FromOf(filter0), ToOf(filter0))

\* A query two levels down, strictly inside the requested range, waits for
\* the provider.
C17_Witness ==
    /\ Concrete(filter0)
    /\ Len(stack) >= 3 /\ Top.at = "get_logs"
    /\ FromOf(filter0) < FromOf(Top.filter) /\ ToOf(Top.filter) < ToOf(filter0)
    /\ FromOf(Top.filter) < ToOf(Top.filter)

\* A sub-call has just returned Err.
ErrReturned == ret # None /\ ~ret[1].res.ok

\* The windows of r but the last have returned Ok, one after the other, and
\* each window starts above the one before it.
OneAtATime(r, inflight) ==
    /\ Len(r.windows) = Len(r.results) + inflight
    /\ \A i \in 1..Len(r.results) :
          <<r.results[i][1], r.results[i][2]>> = r.windows[i]
    /\ \A i \in 1..(Len(r.windows) - 1) : r.windows[i][2] < r.windows[i + 1][1]

\* C18: windows are fetched one at a time in ascending order, window i+1
\* only after window i's sub-call returned Ok; once a sub-call has returned
\* Err, no invocation issues another provider call: the error travels up the
\* stack, every step popping an invocation, whatever windows remain.
C18_SequentialFailFast ==
    /\ [](/\ \A r \in Splitting : OneAtATime(r, 1)
          /\ \A r \in Completed :
                Split(r) => OneAtATime(r, IF r.res.ok THEN 0 ELSE 1))
    /\ [][ErrReturned
          => /\ ret' # None /\ ~ret'[1].res.ok
             /\ Len(stack') <= Len(stack)
             /\ \A i \in 1..Len(stack') : stack'[i] = stack[i]
             /\ stack # <<>> => Len(stack') < Len(stack)]_vars

\* The second window of a nested invocation has failed while that invocation
\* and its caller both have windows left.
C18_Witness ==
    /\ ErrReturned
    /\ Len(stack) >= 2
    /\ Len(Top.results) >= 1 /\ Top.current_to < Top.original_to
    /\ stack[1].current_to < stack[1].original_to

\* The indices of the lines of the given kind printed for the group titled t.
Markers(kind, t) ==
    {k \in 1..Len(rstate.out) : rstate.out[k].kind = kind /\ rstate.out[k].title = t}

\* C19: every group receives exactly one verdict marker: a group without
\* reportable failure one passed line and no failed header; a group with one
\* or more reportable failures its failed header exactly once, before its
\* first failure record, and no passed line.
C19_OneVerdict ==
    LET groups == rstate.results_by_block IN
    rstate.ret # None
    => \A i \in 1..Len(groups) :
          IF GroupFailed(groups[i])
          THEN /\ Cardinality(Markers("failed", groups[i].title)) = 1
               /\ Markers("passed", groups[i].title) = {}
               /\ \A k \in Markers("failed", groups[i].title) :
                     IsFailureLine(rstate.out[k + 1])
          ELSE /\ Cardinality(Markers("passed", groups[i].title)) = 1
               /\ Markers("failed", groups[i].title) = {}

\* The invocations that walk, or have walked, a range.
Walks == Splitting \cup {r \in Completed : Split(r)}

\* C20: for every concrete range from <= to of the whole block-number type,
\* also 0..MAX and the ranges ending at MAX, neither the length of the range
\* nor the window walk overflows or wraps, and the walk ends with a window
\* whose upper bound is to.
C20_NoOverflow ==
    /\ pc # "panicked"
    /\ \A r \in Walks :
        Concrete(r.filter)
        => /\ r.original_to - r.original_from + 1 <= MaxBlock
           /\ \A i \in 1..Len(r.windows) :
                 r.windows[i][1] <= r.windows[i][2] /\ r.windows[i][2] <= r.original_to
    /\ \A r \in Completed :
        (Split(r) /\ Concrete(r.filter) /\ r.res.ok)
        => r.windows[Len(r.windows)][2] = ToOf(r.filter)

====
